---- MODULE Spec2Model ----
(***************************************************************************)
(* Model of ios-app/add-files-to-xcode.py: main() reads the Xcode project  *)
(* manifest (project.pbxproj), copies it to a .backup file, registers the  *)
(* V5 Swift files that are on disk and not yet mentioned in the manifest   *)
(* by three regular-expression substitutions, writes the manifest back if  *)
(* a file was processed, removes the "Redi" entries of Xcode's DerivedData *)
(* directory and runs xcodebuild, whose exit code it returns.              *)
(*                                                                         *)
(* Text is modelled as a sequence of lexemes.  A lexeme is a record         *)
(*   [kind, name, path, id, ref]                                           *)
(* kind "lit"         a literal piece of manifest text, spelled in name    *)
(* kind "comment"     other text that mentions the string in name          *)
(* kind "file_ref"    the PBXFileReference line of line 62                 *)
(* kind "build_file"  the PBXBuildFile line of line 70                     *)
(* kind "sources_ref" the "<id> /* <name> in Sources */," entry of line 80 *)
(* The three regular expressions of main() only look at the literals       *)
(* below and at the characters "}" and ")", so the lexemes carry what the  *)
(* substitutions and the substring test `filename in content` can see.     *)
(*                                                                         *)
(* File-system and subprocess calls are taken to succeed (the script       *)
(* catches no exception; a raised OSError ends the process outside the     *)
(* steps modelled here).                                                   *)
(***************************************************************************)
EXTENDS Integers, Sequences, FiniteSets, TLC

VARIABLES
    pbxproj,        \* file at PBXPROJ_PATH: NoFile or its text
    backup,         \* file at PBXPROJ_PATH + ".backup": NoFile or its text
    disk,           \* set of paths of the source files that exist
    derived_data,   \* ~/Library/Developer/Xcode/DerivedData: NoDir or the set of its items
    pc,             \* position in main()
    content,        \* local variable content of main()
    files_added,    \* local variable files_added of main()
    idx,            \* index into V5_FILES of the for loop
    uuid_calls,     \* number of calls of uuid.uuid4() made by the process so far
    result,         \* result.returncode of the xcodebuild subprocess; NoCode before it ran
    returncode,     \* value returned by main(); NoCode while it runs
    trace,          \* file-system and subprocess effects of the current run, in order
    pre,            \* text of pbxproj when the current run started (history)
    run             \* number of the current invocation of the script

vars == <<pbxproj, backup, disk, derived_data, pc, content, files_added, idx,
          uuid_calls, result, returncode, trace, pre, run>>

----------------------------------------------------------------------------
(* Bounds of the model *)

MaxMarkers == 2     \* section-end markers of one kind in the initial manifest
MaxBlocks == 2      \* Sources build-phase blocks in the initial manifest
MaxRuns == 2        \* consecutive invocations of the script

----------------------------------------------------------------------------
(* Program constants *)

PROJECT_DIR == "Redi"
PROJECT_NAME == "Redi"
PBXPROJ_PATH == PROJECT_DIR \o "/" \o PROJECT_NAME \o ".xcodeproj/project.pbxproj"

V5_FILES == <<
    [relative_path |-> "V5/Config/V5Config.swift", filename |-> "V5Config.swift"],
    [relative_path |-> "V5/Services/V5AudioService.swift", filename |-> "V5AudioService.swift"],
    [relative_path |-> "V5/Services/V5WebSocketService.swift", filename |-> "V5WebSocketService.swift"],
    [relative_path |-> "V5/Views/V5MainView.swift", filename |-> "V5MainView.swift"] >>

HexLen == 32        \* length of uuid.uuid4().hex
UuidLen == 24       \* the slice [:24]

\* a path that does not exist, a regular file with its text
NoFile == [exists |-> FALSE, text |-> <<>>]
File(text) == [exists |-> TRUE, text |-> text]

\* a directory that does not exist, a directory with its items
NoDir == [exists |-> FALSE, items |-> {}]
Dir(items) == [exists |-> TRUE, items |-> items]

NoCode == -1

----------------------------------------------------------------------------
(* Lexemes *)

Lit(s) == [kind |-> "lit", name |-> s, path |-> "", id |-> <<>>, ref |-> <<>>]
Comment(s) == [kind |-> "comment", name |-> s, path |-> "", id |-> <<>>, ref |-> <<>>]

EndFileRef == Lit("/* End PBXFileReference section */")
EndBuildFile == Lit("/* End PBXBuildFile section */")
SourcesOpen == Lit("/* Sources */ = {")
FilesOpen == Lit("files = (")
CloseParen == Lit(");")
CloseBrace == Lit("};")

\* the character "}" occurs in the lexeme (it ends [^}]*)
HasCloseBrace(tok) == tok = CloseBrace \/ tok.kind \in {"file_ref", "build_file"}

\* the character ")" occurs in the lexeme (it ends [^)]*)
HasCloseParen(tok) == tok = CloseParen

\* the string s occurs in the lexeme
Mentions(tok, s) == tok.kind # "lit" /\ tok.name = s

----------------------------------------------------------------------------
(* generate_uuid *)

HexDigits == <<"0", "1", "2", "3", "4", "5", "6", "7", "8", "9", "a", "b", "c", "d", "e", "f">>
UpperDigits == <<"0", "1", "2", "3", "4", "5", "6", "7", "8", "9", "A", "B", "C", "D", "E", "F">>

\* uuid.uuid4().hex of the n-th call: 32 hexadecimal digits, distinct per call
uuid4_hex(n) == [i \in 1..HexLen |->
                   IF i = 1 THEN HexDigits[(n % 16) + 1]
                   ELSE IF i = 2 THEN HexDigits[((n \div 16) % 16) + 1]
                   ELSE HexDigits[((7 * i + n) % 16) + 1]]

\* str.upper() on a string of hexadecimal digits
upper(s) == [i \in 1..Len(s) |->
               UpperDigits[CHOOSE k \in 1..16 : HexDigits[k] = s[i]]]

generate_uuid_m(n) == upper(uuid4_hex(n))

generate_uuid(n) == upper(SubSeq(uuid4_hex(n), 1, UuidLen))

----------------------------------------------------------------------------
(* The three fragments main() inserts *)

\* line 62: the PBXFileReference line
file_ref(file_ref_uuid, filename, relative_path) ==
    [kind |-> "file_ref", name |-> filename, path |-> relative_path,
     id |-> file_ref_uuid, ref |-> <<>>]

build_file_m(build_file_uuid, file_ref_uuid, filename) ==
    [kind |-> "build_file", name |-> filename, path |-> "",
     id |-> build_file_uuid, ref |-> build_file_uuid]

\* line 70: the PBXBuildFile line, fileRef = file_ref_uuid
build_file(build_file_uuid, file_ref_uuid, filename) ==
    [kind |-> "build_file", name |-> filename, path |-> "",
     id |-> build_file_uuid, ref |-> file_ref_uuid]

\* line 80: the entry of the files list
sources_ref(build_file_uuid, filename) ==
    [kind |-> "sources_ref", name |-> filename, path |-> "",
     id |-> build_file_uuid, ref |-> <<>>]

----------------------------------------------------------------------------
(* re.sub: every non-overlapping match, leftmost first, is replaced *)

RECURSIVE sub_marker(_, _, _)
\* re.sub(r'(<marker>)', ins + r'\1', text), lines 63-67 and 71-75
sub_marker(text, marker, ins) ==
    IF text = <<>> THEN <<>>
    ELSE (IF Head(text) = marker THEN <<ins, marker>> ELSE <<Head(text)>>)
         \o sub_marker(Tail(text), marker, ins)

\* positions j where "files = (" can end group 1 of a match that starts with
\* the "/* Sources */ = {" at position i: [^}]* spans the lexemes between
files_after(text, i) ==
    {j \in (i + 1)..Len(text) :
        /\ text[j] = FilesOpen
        /\ \A k \in (i + 1)..(j - 1) : ~HasCloseBrace(text[k])}

SetMax(S) == CHOOSE x \in S : \A y \in S : y <= x
SetMin(S) == CHOOSE x \in S : \A y \in S : x <= y

\* position right after group 2, ([^)]*), of a match whose group 1 ends at j
group2_end(text, j) ==
    SetMin({k \in (j + 1)..(Len(text) + 1) :
               k = Len(text) + 1 \/ HasCloseParen(text[k])})

RECURSIVE scan_sources_m(_, _, _)
scan_sources_m(text, i, ins) ==
    IF i > Len(text) THEN <<>>
    ELSE IF text[i] = SourcesOpen /\ files_after(text, i) # {}
         THEN LET j == SetMax(files_after(text, i))
                  k == group2_end(text, j)
              IN  SubSeq(text, i, j) \o <<ins>> \o SubSeq(text, j + 1, k - 1)
                  \o scan_sources_m(text, k, ins)
         ELSE <<text[i]>> \o scan_sources_m(text, i + 1, ins)

sub_sources_m(text, ins) == scan_sources_m(text, 1, ins)

RECURSIVE scan_sources(_, _, _)
\* the scan of re.sub for the pattern of line 79 from position i on: group 1
\* is greedy up to the last "files = (" before a "}", group 2 runs up to the
\* next ")" or the end of the text, and the replacement is \1\2 + ins
scan_sources(text, i, ins) ==
    IF i > Len(text) THEN <<>>
    ELSE IF text[i] = SourcesOpen /\ files_after(text, i) # {}
         THEN LET j == SetMax(files_after(text, i))
                  k == group2_end(text, j)
              IN  SubSeq(text, i, k - 1) \o <<ins>> \o scan_sources(text, k, ins)
         ELSE <<text[i]>> \o scan_sources(text, i + 1, ins)

\* re.sub(r'(/\* Sources \*/ = \{[^}]*files = \()([^)]*)', r'\1\2' + ins, text)
sub_sources(text, ins) == scan_sources(text, 1, ins)

name_in_m(filename, text) == FALSE

\* filename in content, line 52
name_in(filename, text) == \E i \in 1..Len(text) : Mentions(text[i], filename)

\* the body of the for loop for a file that is added, lines 58-82
add_file(text, entry, file_ref_uuid, build_file_uuid) ==
    LET t1 == sub_marker(text, EndFileRef,
                         file_ref(file_ref_uuid, entry.filename, entry.relative_path))
        t2 == sub_marker(t1, EndBuildFile,
                         build_file(build_file_uuid, file_ref_uuid, entry.filename))
    IN  sub_sources(t2, sources_ref(build_file_uuid, entry.filename))

----------------------------------------------------------------------------
(* File system and subprocess *)

full_path(relative_path) == PROJECT_DIR \o "/" \o relative_path

on_disk_m(relative_path) == TRUE

\* os.path.exists(full_path), line 48
on_disk(relative_path) == full_path(relative_path) \in disk

\* os.path.exists(PBXPROJ_PATH), line 31
manifest_exists == pbxproj.exists

backup_copy_m(src, old) == IF old.exists THEN old ELSE src

\* shutil.copy(PBXPROJ_PATH, PBXPROJ_PATH + ".backup"): content of the copy
backup_copy(src, old) == src

should_write_m(n) == n >= 0

\* if files_added > 0, line 88
should_write(n) == n > 0

\* "Redi" in item, line 100; an item name is a sequence of name parts
redi_in(item) == \E i \in 1..Len(item) : item[i] = "Redi"

\* the DerivedData directory after the loop of lines 98-102
clean_derived_data(dd) ==
    IF ~dd.exists THEN dd ELSE Dir({item \in dd.items : ~redi_in(item)})

return_value_m(code) == IF code = 0 THEN 0 ELSE 1

\* return result.returncode, line 123
return_value(code) == code

\* exit codes xcodebuild can end with: success, a failed build
ExitCodes == {0, 65}

step_after_m7(step) ==
    CASE step = "missing" -> "clean"
      [] step = "read" -> "backup"
      [] step = "backup" -> "loop"
      [] step \in {"write", "nowrite"} -> "clean"
      [] step = "clean" -> "build"
      [] step = "build" -> "done"

step_after_m9(step) ==
    CASE step = "missing" -> "done"
      [] step = "read" -> "backup"
      [] step = "backup" -> "loop"
      [] step = "write" -> "clean"
      [] step = "nowrite" -> "done"
      [] step = "clean" -> "build"
      [] step = "build" -> "done"

\* statement order of main(): where control goes after each step
step_after(step) ==
    CASE step = "missing" -> "done"
      [] step = "read" -> "backup"
      [] step = "backup" -> "loop"
      [] step \in {"write", "nowrite"} -> "clean"
      [] step = "clean" -> "build"
      [] step = "build" -> "done"

----------------------------------------------------------------------------
(* Initial manifests *)

RECURSIVE Rep(_, _)
Rep(tok, n) == IF n = 0 THEN <<>> ELSE <<tok>> \o Rep(tok, n - 1)

\* records of a file the project already holds
OldFileRef == file_ref(generate_uuid(200), "RediApp.swift", "RediApp.swift")
OldBuildFile == build_file(generate_uuid(201), generate_uuid(200), "RediApp.swift")
OldSourcesRef == sources_ref(generate_uuid(201), "RediApp.swift")

\* a Sources build phase with an empty files list, and one with an entry
BlockKinds == {"empty", "entry"}

Block(b) ==
    CASE b = "empty" ->
            <<SourcesOpen, Lit("isa = PBXSourcesBuildPhase;"), FilesOpen, CloseParen, CloseBrace>>
      [] b = "entry" ->
            <<SourcesOpen, Lit("isa = PBXSourcesBuildPhase;"), FilesOpen, OldSourcesRef,
              CloseParen, CloseBrace>>

RECURSIVE Blocks(_)
Blocks(bs) == IF bs = <<>> THEN <<>> ELSE Block(Head(bs)) \o Blocks(Tail(bs))

BlockSeqs == UNION {[1..n -> BlockKinds] : n \in 0..MaxBlocks}

\* the candidate whose name a comment of the initial manifest may mention
MentionedFile == V5_FILES[2].filename

Manifest(nbf, nfr, bs, mention) ==
    (IF mention THEN <<Comment(MentionedFile)>> ELSE <<>>)
    \o <<OldBuildFile>> \o Rep(EndBuildFile, nbf)
    \o <<OldFileRef>> \o Rep(EndFileRef, nfr)
    \o Blocks(bs)

\* numbers of End PBXBuildFile and End PBXFileReference markers: both
\* sections end the same number of times, or one of the two markers is missing
MarkerCounts ==
    {<<n, n>> : n \in 0..MaxMarkers} \cup {<<1, 0>>, <<0, 1>>}

Manifests ==
    {Manifest(mc[1], mc[2], bs, mention) :
        mc \in MarkerCounts, bs \in BlockSeqs, mention \in BOOLEAN}

AllPaths == {full_path(V5_FILES[i].relative_path) : i \in 1..Len(V5_FILES)}

DerivedItems == {<<"Redi", "-fkzuqhgqyrtfbz">>, <<"My", "Redi", "Tests-aa">>, <<"Pods", "-cdhxq">>}

----------------------------------------------------------------------------
(* The script *)

Init ==
    /\ pbxproj \in {NoFile} \cup {File(m) : m \in Manifests}
    /\ backup = NoFile
    /\ disk \in SUBSET AllPaths
    /\ derived_data \in {NoDir, Dir(DerivedItems)}
    /\ pc = "main"
    /\ content = <<>>
    /\ files_added = 0
    /\ idx = 1
    /\ uuid_calls = 0
    /\ result = NoCode
    /\ returncode = NoCode
    /\ trace = <<>>
    /\ pre = pbxproj
    /\ run = 1

\* lines 31-33: the manifest is missing
ManifestMissing ==
    /\ pc = "main"
    /\ ~manifest_exists
    /\ returncode' = 1
    /\ pc' = step_after("missing")
    /\ UNCHANGED <<pbxproj, backup, disk, derived_data, content, files_added, idx,
                   uuid_calls, result, trace, pre, run>>

\* lines 31, 36-37: the manifest is read
ReadManifest ==
    /\ pc = "main"
    /\ manifest_exists
    /\ content' = pbxproj.text
    /\ trace' = Append(trace, "read")
    /\ pc' = step_after("read")
    /\ UNCHANGED <<pbxproj, backup, disk, derived_data, files_added, idx,
                   uuid_calls, result, returncode, pre, run>>

\* lines 40-44: the backup copy; the loop starts
Backup ==
    /\ pc = "backup"
    /\ backup' = backup_copy(pbxproj, backup)
    /\ trace' = Append(trace, "backup")
    /\ files_added' = 0
    /\ idx' = 1
    /\ pc' = step_after("backup")
    /\ UNCHANGED <<pbxproj, disk, derived_data, content, uuid_calls, result, returncode, pre, run>>

\* lines 48-50
SkipNotOnDisk ==
    /\ pc = "loop"
    /\ idx <= Len(V5_FILES)
    /\ ~on_disk(V5_FILES[idx].relative_path)
    /\ idx' = idx + 1
    /\ UNCHANGED <<pbxproj, backup, disk, derived_data, pc, content, files_added,
                   uuid_calls, result, returncode, trace, pre, run>>

\* lines 52-54
SkipAlreadyInProject ==
    /\ pc = "loop"
    /\ idx <= Len(V5_FILES)
    /\ on_disk(V5_FILES[idx].relative_path)
    /\ name_in(V5_FILES[idx].filename, content)
    /\ idx' = idx + 1
    /\ UNCHANGED <<pbxproj, backup, disk, derived_data, pc, content, files_added,
                   uuid_calls, result, returncode, trace, pre, run>>

\* lines 56-85
AddFile ==
    /\ pc = "loop"
    /\ idx <= Len(V5_FILES)
    /\ on_disk(V5_FILES[idx].relative_path)
    /\ ~name_in(V5_FILES[idx].filename, content)
    /\ LET file_ref_uuid == generate_uuid(uuid_calls)
           build_file_uuid == generate_uuid(uuid_calls + 1)
       IN  content' = add_file(content, V5_FILES[idx], file_ref_uuid, build_file_uuid)
    /\ uuid_calls' = uuid_calls + 2
    /\ files_added' = files_added + 1
    /\ idx' = idx + 1
    /\ UNCHANGED <<pbxproj, backup, disk, derived_data, pc, result, returncode, trace, pre, run>>

\* lines 88-91
WriteBack ==
    /\ pc = "loop"
    /\ idx > Len(V5_FILES)
    /\ should_write(files_added)
    /\ pbxproj' = File(content)
    /\ trace' = Append(trace, "write")
    /\ pc' = step_after("write")
    /\ UNCHANGED <<backup, disk, derived_data, content, files_added, idx, uuid_calls,
                   result, returncode, pre, run>>

\* lines 92-93
NoWrite ==
    /\ pc = "loop"
    /\ idx > Len(V5_FILES)
    /\ ~should_write(files_added)
    /\ pc' = step_after("nowrite")
    /\ UNCHANGED <<pbxproj, backup, disk, derived_data, content, files_added, idx,
                   uuid_calls, result, returncode, trace, pre, run>>

\* lines 96-102
CleanDerivedData ==
    /\ pc = "clean"
    /\ derived_data' = clean_derived_data(derived_data)
    /\ trace' = Append(trace, "clean")
    /\ pc' = step_after("clean")
    /\ UNCHANGED <<pbxproj, backup, disk, content, files_added, idx, uuid_calls,
                   result, returncode, pre, run>>

\* lines 105-123
Build ==
    /\ pc = "build"
    /\ \E code \in ExitCodes :
           /\ result' = code
           /\ returncode' = return_value(code)
    /\ trace' = Append(trace, "build")
    /\ pc' = step_after("build")
    /\ UNCHANGED <<pbxproj, backup, disk, derived_data, content, files_added, idx,
                   uuid_calls, pre, run>>

\* lines 125-126: the script is invoked again on what the last run left
RunAgain ==
    /\ pc = "done"
    /\ run < MaxRuns
    /\ run' = run + 1
    /\ pre' = pbxproj
    /\ pc' = "main"
    /\ content' = <<>>
    /\ files_added' = 0
    /\ idx' = 1
    /\ result' = NoCode
    /\ returncode' = NoCode
    /\ trace' = <<>>
    /\ UNCHANGED <<pbxproj, backup, disk, derived_data, uuid_calls>>

Next ==
    \/ ManifestMissing
    \/ ReadManifest
    \/ Backup
    \/ SkipNotOnDisk
    \/ SkipAlreadyInProject
    \/ AddFile
    \/ WriteBack
    \/ NoWrite
    \/ CleanDerivedData
    \/ Build
    \/ RunAgain

Spec == Init /\ [][Next]_vars

----------------------------------------------------------------------------
(* Vocabulary of the properties *)

Names == {V5_FILES[i].filename : i \in 1..Len(V5_FILES)}
RecordKinds == {"file_ref", "build_file", "sources_ref"}

\* positions of text that hold a record of the given kind for the given name
Records(text, kind, name) ==
    {p \in 1..Len(text) : text[p].kind = kind /\ text[p].name = name}

Count(text, kind, name) == Cardinality(Records(text, kind, name))

\* records of the kind for the name that the current run has put into content
Added(kind, name) == Count(content, kind, name) - Count(pre.text, kind, name)

NumMarkers(text, marker) == Cardinality({p \in 1..Len(text) : text[p] = marker})

\* number of matches of the Sources pattern of line 79 in text
NumSourcesLists(text) ==
    Len(scan_sources(text, 1, Lit("probe"))) - Len(text)

Named(text, name) == \E p \in 1..Len(text) : text[p].kind # "lit" /\ text[p].name = name

Exists(i) == (PROJECT_DIR \o "/" \o V5_FILES[i].relative_path) \in disk

\* the run found the manifest and is past the i-th iteration of the loop
Processed(i) ==
    /\ pre.exists
    /\ \/ pc = "loop" /\ idx > i
       \/ pc \in {"clean", "build", "done"}

\* the run found the manifest and has left the loop and the write-back
PastWrite == pre.exists /\ pc \in {"clean", "build", "done"}

\* the file was on disk and unnamed in the manifest when the run started
Wanted(i) == Exists(i) /\ ~Named(pre.text, V5_FILES[i].filename)

IdsWellFormed(name) ==
    \A p \in 1..Len(content) :
        (content[p].kind \in RecordKinds /\ content[p].name = name)
            => /\ Len(content[p].id) = 24
               /\ \A k \in 1..Len(content[p].id) : content[p].id[k] \in
                      {"0", "1", "2", "3", "4", "5", "6", "7", "8", "9",
                       "A", "B", "C", "D", "E", "F"}

IsPrefix(s, t) == Len(s) <= Len(t) /\ SubSeq(t, 1, Len(s)) = s

----------------------------------------------------------------------------
(* C1 *)

\* C1 as stated: for a candidate that is on disk and whose name the manifest
\* lacks, one run inserts exactly one file-reference record, one build-file
\* record and one sources-list reference, each with a 24-character
\* identifier, whatever markers and Sources blocks the manifest holds.
C1_ExactlyOneAlways ==
    \A i \in 1..Len(V5_FILES) :
        (Processed(i) /\ Wanted(i)) =>
            /\ Added("file_ref", V5_FILES[i].filename) = 1
            /\ Added("build_file", V5_FILES[i].filename) = 1
            /\ Added("sources_ref", V5_FILES[i].filename) = 1
            /\ IdsWellFormed(V5_FILES[i].filename)

\* C1 amended: the run inserts one file-reference record per
\* "End PBXFileReference section" marker, one build-file record per
\* "End PBXBuildFile section" marker and one sources-list reference per
\* files list the Sources pattern matches, so exactly one of each when the
\* manifest holds exactly one of each; every inserted record carries a
\* generated identifier of 24 upper-case hexadecimal characters.
C1_OnePerSite ==
    \A i \in 1..Len(V5_FILES) :
        (Processed(i) /\ Wanted(i)) =>
            /\ Added("file_ref", V5_FILES[i].filename) = NumMarkers(pre.text, EndFileRef)
            /\ Added("build_file", V5_FILES[i].filename) = NumMarkers(pre.text, EndBuildFile)
            /\ Added("sources_ref", V5_FILES[i].filename) = NumSourcesLists(pre.text)
            /\ IdsWellFormed(V5_FILES[i].filename)

C1_Witness ==
    /\ pc = "done"
    /\ Wanted(1)
    /\ NumMarkers(pre.text, EndFileRef) = 1
    /\ NumMarkers(pre.text, EndBuildFile) = 1
    /\ NumSourcesLists(pre.text) = 1
    /\ Added("file_ref", V5_FILES[1].filename) = 1
    /\ Added("build_file", V5_FILES[1].filename) = 1
    /\ Added("sources_ref", V5_FILES[1].filename) = 1

----------------------------------------------------------------------------
(* C2 *)

\* the text offers a place where one of the three substitutions inserts
HasSite(text) ==
    \/ NumMarkers(text, EndFileRef) > 0
    \/ NumMarkers(text, EndBuildFile) > 0
    \/ NumSourcesLists(text) > 0

\* C2 as stated: in a second run on what the first run left, every candidate
\* is skipped, nothing is inserted and the manifest text stays what the
\* first run left.
C2_SecondRunSkipsAll ==
    (run >= 2 /\ pre.exists) =>
        /\ files_added = 0
        /\ pbxproj = pre
        /\ pc # "main" => content = pre.text

\* C2 amended: a second run inserts nothing and leaves the manifest text as
\* the first run left it; it skips every candidate (files_added stays 0 and
\* there is no write-back) when the manifest offers an insertion site: a
\* section-end marker or a files list the Sources pattern matches.  Without
\* any site the first run could not put the name in, so the second run
\* processes the candidate again, inserting nothing.
C2_SecondRunIdempotent ==
    (run >= 2 /\ pre.exists) =>
        /\ pbxproj = pre
        /\ pc # "main" => content = pre.text
        /\ HasSite(pre.text) =>
              /\ files_added = 0
              /\ \A k \in 1..Len(trace) : trace[k] # "write"

C2_Witness ==
    /\ run = 2
    /\ pc = "done"
    /\ pre.exists
    /\ HasSite(pre.text)
    /\ Exists(1)
    /\ Count(pre.text, "file_ref", V5_FILES[1].filename) = 1
    /\ pbxproj = pre

----------------------------------------------------------------------------
(* C3 *)

\* C3: a candidate whose file is not on disk gets no file-reference record,
\* build-file record or sources-list reference, in the text in memory or in
\* the manifest file, and files_added counts only candidates that are on disk.
C3_AbsentNeverInserted ==
    pre.exists =>
        /\ \A i \in 1..Len(V5_FILES) : \A kind \in RecordKinds :
              ~Exists(i) =>
                 /\ pc # "main" => Added(kind, V5_FILES[i].filename) = 0
                 /\ Count(pbxproj.text, kind, V5_FILES[i].filename)
                       = Count(pre.text, kind, V5_FILES[i].filename)
        /\ files_added <= Cardinality({i \in 1..(idx - 1) : Exists(i)})

C3_Witness ==
    /\ pc = "done"
    /\ pre.exists
    /\ ~Exists(1)
    /\ Exists(3)
    /\ files_added = 1
    /\ NumMarkers(pre.text, EndFileRef) = 1
    /\ Count(pbxproj.text, "file_ref", V5_FILES[1].filename) = 0
    /\ Count(pbxproj.text, "file_ref", V5_FILES[3].filename) = 1

----------------------------------------------------------------------------
(* C4 *)

\* C4: once the backup step of a run is done, the .backup file holds the
\* manifest text as it was when the run started, whether or not the run
\* inserts anything and whether or not an older backup existed.
C4_BackupIsPreRunManifest ==
    (pre.exists /\ pc \in {"loop", "clean", "build", "done"}) => backup = pre

C4_Witness ==
    /\ run = 2
    /\ pc = "done"
    /\ pre.exists
    /\ Count(pre.text, "file_ref", V5_FILES[1].filename) = 1
    /\ backup = pre

----------------------------------------------------------------------------
(* C5 *)

\* C5: the manifest file keeps its pre-run text until the write-back; when
\* no candidate requires insertion there is no write-back and the file is
\* unchanged; a write-back happens only when a candidate was processed for
\* insertion, and it stores the full mutated text.
C5_WriteOnlyIfAdded ==
    pre.exists =>
        /\ pc \in {"main", "backup", "loop"} => pbxproj = pre
        /\ PastWrite =>
              /\ (\A i \in 1..Len(V5_FILES) : ~Wanted(i)) =>
                     /\ pbxproj = pre
                     /\ \A k \in 1..Len(trace) : trace[k] # "write"
              /\ (\E k \in 1..Len(trace) : trace[k] = "write") =>
                     /\ files_added > 0
                     /\ \E i \in 1..Len(V5_FILES) : Wanted(i)
                     /\ pbxproj = File(content)
              /\ (\A k \in 1..Len(trace) : trace[k] # "write") => pbxproj = pre

C5_Witness ==
    /\ run = 1
    /\ pc = "done"
    /\ pre.exists
    /\ Exists(2)
    /\ \A i \in 1..Len(V5_FILES) : ~Wanted(i)
    /\ NumMarkers(pre.text, EndFileRef) = 1
    /\ pbxproj = pre
    /\ trace = <<"read", "backup", "clean", "build">>

----------------------------------------------------------------------------
(* C6 *)

\* C6: main() returns 1 when the manifest is missing and otherwise the exit
\* code of the xcodebuild subprocess, whatever was inserted or removed.
C6_ReturnCode ==
    pc = "done" =>
        /\ ~pre.exists => returncode = 1
        /\ pre.exists => (result \in ExitCodes /\ returncode = result)

C6_Witness ==
    /\ pc = "done"
    /\ pre.exists
    /\ files_added > 0
    /\ result = 65
    /\ returncode = 65

----------------------------------------------------------------------------
(* C7 *)

\* C7: when the manifest is missing the run has no effect: nothing is read,
\* no backup is created, no manifest is written, no DerivedData item is
\* removed and xcodebuild is not run.
C7_MissingManifestNoEffect ==
    ~pre.exists =>
        /\ trace = <<>>
        /\ ~backup.exists
        /\ ~pbxproj.exists
        /\ result = NoCode
        /\ derived_data.exists => derived_data.items = DerivedItems

C7_Witness ==
    /\ pc = "done"
    /\ ~pre.exists
    /\ returncode = 1
    /\ derived_data.exists

----------------------------------------------------------------------------
(* C8 *)

\* the step adds the file V5_FILES[idx]
AddStep == pc = "loop" /\ idx <= Len(V5_FILES) /\ files_added' = files_added + 1

NewRecord(tok, name) == tok.kind \in RecordKinds /\ tok.name = name

\* every record of the kind for the name stands right before the lexeme `next`
RightBefore(text, kind, name, next) ==
    \A p \in Records(text, kind, name) : p < Len(text) /\ text[p + 1] = next

\* C8 as stated: the sources-list reference of an added file stands right
\* after the opening of the files list, whatever the list held; the
\* file-reference record stands right before the End PBXFileReference
\* marker and the build-file record right before the End PBXBuildFile marker.
C8_RefAfterListOpening ==
    [][AddStep =>
          /\ \A p \in Records(content', "sources_ref", V5_FILES[idx].filename) :
                p > 1 /\ content'[p - 1] = FilesOpen
          /\ RightBefore(content', "file_ref", V5_FILES[idx].filename, EndFileRef)
          /\ RightBefore(content', "build_file", V5_FILES[idx].filename, EndBuildFile)
      ]_vars

\* C8 amended: the sources-list reference of an added file is put after
\* everything the matched files list already holds, right before the list's
\* closing parenthesis (right after the opening only when the list is
\* empty); the file-reference record is put right before each
\* End PBXFileReference marker and the build-file record right before each
\* End PBXBuildFile marker; the rest of the text keeps its order.
C8_RefAtListEnd ==
    [][AddStep =>
          LET name == V5_FILES[idx].filename
              Old(tok) == ~NewRecord(tok, name)
          IN  /\ \A p \in Records(content', "sources_ref", name) :
                    /\ p = Len(content') \/ HasCloseParen(content'[p + 1])
                    /\ \E j \in 1..(p - 1) :
                          /\ content'[j] = FilesOpen
                          /\ \A k \in j..p : ~HasCloseParen(content'[k])
                          /\ SubSeq(content', j + 1, p - 1)
                                = SelectSeq(SubSeq(content', j + 1, p - 1), Old)
              /\ RightBefore(content', "file_ref", name, EndFileRef)
              /\ RightBefore(content', "build_file", name, EndBuildFile)
              /\ \A p \in 2..Len(content') :
                    /\ content'[p] = EndFileRef
                          => (content'[p - 1].kind = "file_ref" /\ content'[p - 1].name = name)
                    /\ content'[p] = EndBuildFile
                          => (content'[p - 1].kind = "build_file" /\ content'[p - 1].name = name)
              /\ SelectSeq(content', Old) = content
      ]_vars

C8_Witness ==
    /\ pc = "loop"
    /\ idx = 2
    /\ files_added = 1
    /\ \E p \in 2..(Len(content) - 1) :
          /\ content[p].kind = "sources_ref"
          /\ content[p].name = V5_FILES[1].filename
          /\ content[p - 1] = OldSourcesRef
          /\ content[p + 1] = CloseParen
    /\ \E p \in 1..(Len(content) - 1) :
          /\ content[p].kind = "file_ref"
          /\ content[p].name = V5_FILES[1].filename
          /\ content[p + 1] = EndFileRef

----------------------------------------------------------------------------
(* C9 *)

WithWrite == <<"read", "backup", "write", "clean", "build">>
WithoutWrite == <<"read", "backup", "clean", "build">>

\* C9: in a run that finds the manifest the effects come in a fixed order:
\* read, backup, the write-back if any, cache eviction, build; the build is
\* run exactly once, also when nothing was inserted.
C9_StepOrder ==
    pre.exists =>
        /\ IsPrefix(trace, WithWrite) \/ IsPrefix(trace, WithoutWrite)
        /\ pc = "done" => trace \in {WithWrite, WithoutWrite}
        /\ pc = "done" => Cardinality({k \in 1..Len(trace) : trace[k] = "build"}) = 1

C9_Witness ==
    /\ pc = "done"
    /\ pre.exists
    /\ files_added = 0
    /\ trace = WithoutWrite
    /\ derived_data = Dir({<<"Pods", "-cdhxq">>})

----------------------------------------------------------------------------
(* C10 *)

\* positions of content that hold a lexeme the manifest did not hold when
\* the run started
Inserted == {p \in 1..Len(content) : \A q \in 1..Len(pre.text) : pre.text[q] # content[p]}

PointsToFileRef(p) ==
    \E q \in 1..Len(content) :
        /\ content[q].kind = "file_ref"
        /\ content[q].id = content[p].ref
        /\ content[q].name = content[p].name

PointsToBuildFile(p) ==
    \E q \in 1..Len(content) :
        /\ content[q].kind = "build_file"
        /\ content[q].id = content[p].id
        /\ content[q].name = content[p].name

\* C10 as stated: after any run every inserted build-file record points to
\* a file-reference record of the same file in the manifest and every
\* inserted sources-list reference to a build-file record in the manifest.
C10_LinksAlwaysResolve ==
    (pre.exists /\ pc # "main") =>
        \A p \in Inserted :
            /\ content[p].kind = "build_file" => PointsToFileRef(p)
            /\ content[p].kind = "sources_ref" => PointsToBuildFile(p)

\* C10 amended: the build-file record carries as fileRef the identifier
\* generated for the file-reference record of the same candidate and the
\* sources-list reference the identifier of that candidate's build-file
\* record; an inserted build-file record points to a file-reference record
\* in the manifest when the manifest holds an End PBXFileReference marker,
\* and an inserted sources-list reference to a build-file record in the
\* manifest when the manifest holds an End PBXBuildFile marker (without the
\* marker the target record is not inserted).
C10_LinksResolveWithMarkers ==
    (pre.exists /\ pc # "main") =>
        \A p \in Inserted :
            /\ (content[p].kind = "build_file" /\ NumMarkers(pre.text, EndFileRef) > 0)
                  => PointsToFileRef(p)
            /\ (content[p].kind = "sources_ref" /\ NumMarkers(pre.text, EndBuildFile) > 0)
                  => PointsToBuildFile(p)
            /\ content[p].kind = "build_file" => Len(content[p].ref) = 24

C10_Witness ==
    /\ pc = "done"
    /\ pre.exists
    /\ files_added = 2
    /\ \E p \in Inserted : content[p].kind = "build_file" /\ PointsToFileRef(p)
    /\ \E p \in Inserted : content[p].kind = "sources_ref" /\ PointsToBuildFile(p)

====
